---- MODULE Spec2Model ----
(***************************************************************************)
(* Orders and carts of the book store: checkout, order queries and status  *)
(* updates (src/controllers/orderController.js), the cart requests, the    *)
(* administrative book updates and deletions that run beside them, the     *)
(* redemption of gift codes and the rate limiter.                          *)
(* The stores are the MongoDB collections behind the Book, User, Cart and  *)
(* Order models; createOrder is modelled one store call (one await) per    *)
(* step, so that other requests can run between two of its store calls.    *)
(***************************************************************************)
EXTENDS Integers, Sequences, FiniteSets, TLC

\* ------------------------------------------------------------------ bounds
NumBooks == 2
NumUsers == 2
NumProcs == 2
MaxQty == 2
MaxBalance == 4
MaxPrice == 2
MaxEdits == 1
MaxPastOrders == 1
MaxTotal == 25
MaxPage == 3
MaxLimit == 5
MaxOver == 2
MaxStale == 2
MaxLag == 2
MaxKeys == 1
\* the seconds that pass in one step of time
TickSeconds == 1800

Books == 1..NumBooks
Users == 1..NumUsers
Procs == 1..NumProcs

VARIABLES
    stock,                  \* Book.stock of every book
    price,                  \* Book.price of every book
    balance,                \* User.balance of every user
    cart,                   \* the CartItem documents of every user, in insertion order
    orders,                 \* the Order collection, in creation order
    pc,                     \* the store call each request is about to make
    userId,                 \* req.user.userId
    cartItems,              \* const cartItems
    userBalance,            \* user.balance, as read by User.findById
    stockErrors,            \* const stockErrors
    calculatedTotalPrice,   \* let calculatedTotalPrice
    idx,                    \* position of the running for-of loop
    processedItems,         \* const processedItems
    newOrder,               \* position of newOrder in the collection, 0 before Order.create
    status,                 \* res.status(...), 0 while the request is running
    message,                \* the message of the response body
    error,                  \* the error caught by the catch block or by asyncHandler
    pre,                    \* the stores as they were when the request started
    edits,                  \* number of administrative updates applied
    live,                   \* the books that exist in the Book collection
    answer,                 \* the response of the running order query or status update
    adding,                 \* the locals of addItemToCart: value, checkBook, cartItem
    codes,                  \* the Code collection
    checkCode,              \* const checkCode of redeemCode
    limiter,                \* the rate_limit:* keys of the counter store
    lim                     \* the locals of rateLimiter

\* what createOrder never writes: price and the existence of a book are changed
\* by administrative requests only
access == <<codes, checkCode, limiter, lim>>
catalogue == <<price, edits, live, answer, adding, access>>
stores == <<stock, catalogue, balance, cart, orders>>
locals == <<userId, cartItems, userBalance, stockErrors, calculatedTotalPrice,
            idx, processedItems, newOrder, error>>
reply == <<pc, status, message>>
vars == <<stores, locals, reply, pre>>

\* ------------------------------------------------------------------ data
CartLines == [book : Books, quantity : 1..MaxQty]

\* the carts add-to-cart builds sequentially: at most one line per book
CartSeqs ==
    {s \in UNION {[1..n -> CartLines] : n \in 0..NumBooks} :
        \A i, j \in DOMAIN s : i # j => s[i].book # s[j].book}

InitialPrice(b) == b

Snapshot == [stock |-> stock, balance |-> balance, cart |-> cart, orders |-> orders]

NoSnapshot == [stock |-> <<>>, balance |-> <<>>, cart |-> <<>>, orders |-> <<>>]

RECURSIVE SumLines(_, _)
\* sum of unit price x quantity over the lines of a cart or of an order
SumLines(lines, pr) ==
    IF lines = <<>> THEN 0
    ELSE pr[Head(lines).book] * Head(lines).quantity + SumLines(Tail(lines), pr)

RECURSIVE SumItems(_)
\* sum of items[i].price x items[i].quantity of an order
SumItems(items) ==
    IF items = <<>> THEN 0
    ELSE Head(items).price * Head(items).quantity + SumItems(Tail(items))

\* no order query or status update is running
NoAnswer == [op |-> "none"]

\* no add-to-cart request is running
NoAdd == [bookId |-> 0, quantity |-> 0, stock |-> 0, line |-> 0, lineQuantity |-> 0]


\* expiresAt: null
NoExpiry == -1

\* the Code documents: their position stands for the code string; expiresIn is
\* expiresAt less the present time, in seconds. One code that does not expire,
\* one that expires with the next step of time, one used, one inactive and one
\* expired
SeedCodes ==
    << [value |-> 1, isUsed |-> FALSE, usedBy |-> 0, isActive |-> TRUE, expiresIn |-> NoExpiry],
       [value |-> 2, isUsed |-> FALSE, usedBy |-> 0, isActive |-> TRUE, expiresIn |-> TickSeconds],
       [value |-> 1, isUsed |-> TRUE, usedBy |-> 2, isActive |-> TRUE, expiresIn |-> NoExpiry],
       [value |-> 1, isUsed |-> FALSE, usedBy |-> 0, isActive |-> FALSE, expiresIn |-> NoExpiry],
       [value |-> 1, isUsed |-> FALSE, usedBy |-> 0, isActive |-> TRUE, expiresIn |-> 0] >>

Codes == DOMAIN SeedCodes

\* a code string of eight characters that no document holds
UnknownCode == 0

\* a body redeemCodeValidation rejects: a code that is not eight characters long
MalformedCode == -1

\* req.body.code and const checkCode before redeemCode has run
NoCode == [code |-> 0, found |-> FALSE, value |-> 0]

\* const routeLimits, and a path it does not name
Routes == {"/api/auth/login", "/api/code/redeem", "/api/book"}

\* req.user is undefined
Anonymous == 0

\* the addresses of clients: x-forwarded-for, remoteAddress or req.ip
Addresses == {1}

\* const identifier: req.user?.userId if there is one, or else the address
Identifier(user, address) ==
    IF user # Anonymous THEN [kind |-> "user", id |-> user]
                        ELSE [kind |-> "address", id |-> address]

Identifiers == {Identifier(u, a) : u \in Users \cup {Anonymous}, a \in Addresses}

Keys == Routes \X Identifiers

\* the reply of TTL for a key that does not exist, and for one without expiry
TtlMissing == -2
TtlNone == -1

NoKey == [count |-> 0, ttl |-> TtlMissing]

NoLim == [key |-> <<"", [kind |-> "", id |-> 0]>>, max |-> 0, window |-> 0, count |-> 0, ttl |-> 0, stale |-> FALSE]

\* ------------------------------------------------------------------ initial states
InitLocals ==
    /\ pc = [p \in Procs |-> "idle"]
    /\ userId = [p \in Procs |-> 0]
    /\ cartItems = [p \in Procs |-> <<>>]
    /\ userBalance = [p \in Procs |-> 0]
    /\ stockErrors = [p \in Procs |-> <<>>]
    /\ calculatedTotalPrice = [p \in Procs |-> 0]
    /\ idx = [p \in Procs |-> 0]
    /\ processedItems = [p \in Procs |-> <<>>]
    /\ newOrder = [p \in Procs |-> 0]
    /\ status = [p \in Procs |-> 0]
    /\ message = [p \in Procs |-> ""]
    /\ error = [p \in Procs |-> ""]
    /\ pre = [p \in Procs |-> NoSnapshot]
    /\ edits = 0
    /\ live = Books
    /\ answer = NoAnswer
    /\ adding = [p \in Procs |-> NoAdd]
    /\ codes = SeedCodes
    /\ checkCode = [p \in Procs |-> NoCode]
    /\ limiter = [k \in Keys |-> NoKey]
    /\ lim = [p \in Procs |-> NoLim]

\* one customer (user 1) with any cart and any balance; the other users are
\* bystanders with one line in their cart
Init ==
    /\ stock \in [Books -> 0..MaxQty]
    /\ price = [b \in Books |-> InitialPrice(b)]
    /\ \E x \in 0..MaxBalance :
          balance = [u \in Users |-> IF u = 1 THEN x ELSE MaxBalance]
    /\ \E c \in CartSeqs :
          cart = [u \in Users |-> IF u = 1 THEN c ELSE <<[book |-> 1, quantity |-> 1]>>]
    /\ orders = <<>>
    /\ InitLocals

\* ------------------------------------------------------------------ store operations
RECURSIVE CartOfUsers(_, _)
\* the cart lines of users 1..n
CartOfUsers(c, n) == IF n = 0 THEN <<>> ELSE CartOfUsers(c, n - 1) \o c[n]

\* Cart.find without its user filter
CartFindAll(c, u) == CartOfUsers(c, NumUsers)

\* Cart.find({ user: userId }): the user's cart lines, in insertion order
CartFindByUser(c, u) == c[u]

\* cartItem.book of a line whose book is not in the Book collection
NullBook == 0

\* .populate("book"): the reference of each line replaced by the book document,
\* by null when the collection has no such book
Populate(items, lv) ==
    [i \in DOMAIN items |->
        [items[i] EXCEPT !.book = IF items[i].book \in lv THEN @ ELSE NullBook]]

\* the message of the TypeError thrown by currentBook.price on a null currentBook
NullPriceError == "Cannot read properties of null (reading 'price')"

\* cartItems.length === 0
IsEmptyCart(items) == Len(items) = 0

\* the stock comparison off by one
IsShortageOrEqual(s, q) == s <= q

\* currentBook.stock < cartItem.quantity
IsShortage(s, q) == s < q

\* the record pushed on stockErrors
ShortageRecord(b, s, q) == [bookId |-> b, available |-> s, requested |-> q]

\* the line total without the quantity
LineTotalUnit(pr, q) == pr

\* currentBook.price * cartItem.quantity
LineTotal(pr, q) == pr * q

\* calculatedTotalPrice > user.balance
ExceedsBalance(total, bal) == total > bal

\* Book.findOneAndUpdate without its stock filter
StockGuardAlways(s, q) == TRUE

\* the filter of Book.findOneAndUpdate: stock: { $gte: cartItem.quantity }
StockGuard(s, q) == s >= q

\* a decrement of one copy whatever the quantity
DecrementStockByOne(st, b, q) == [st EXCEPT ![b] = @ - 1]

\* $inc: { stock: -cartItem.quantity }
DecrementStock(st, b, q) == [st EXCEPT ![b] = @ - q]

\* the record pushed on processedItems; book is the updated document
ProcessedRecord(b, q, pr) == [bookId |-> b, quantity |-> q, book |-> [price |-> pr]]

\* User.findByIdAndUpdate(userId, { $inc: { balance: -calculatedTotalPrice } })
DebitBalance(bal, u, total) == [bal EXCEPT ![u] = @ - total]

RECURSIVE OrderItems(_)
\* processedItems.map(item => ({ book, quantity, price: item.book.price }))
OrderItems(processed) ==
    IF processed = <<>> THEN <<>>
    ELSE <<[book |-> Head(processed).bookId,
            quantity |-> Head(processed).quantity,
            price |-> Head(processed).book.price]>> \o OrderItems(Tail(processed))

\* an order created as already processing
OrderDraftProcessing(u, processed, total) ==
    [user |-> u, items |-> OrderItems(processed), totalPrice |-> total,
     status |-> "processing"]

\* the document handed to Order.create
OrderDraft(u, processed, total) ==
    [user |-> u, items |-> OrderItems(processed), totalPrice |-> total, status |-> "pending"]

\* Cart.deleteMany without its user filter
CartDeleteManyAll(c, u) == [v \in DOMAIN c |-> <<>>]

\* Cart.deleteMany({ user: userId })
CartDeleteMany(c, u) == [c EXCEPT ![u] = <<>>]

\* a catch block that restores nothing
RestoreNothing(st, item) == st

\* Book.findByIdAndUpdate(item.bookId, { $inc: { stock: item.quantity } })
RestoreStock(st, item) == [st EXCEPT ![item.bookId] = @ + item.quantity]

\* a catch block that walks processedItems from its end
RollbackTurnReversed(processed, i) == processed[Len(processed) - i + 1]

\* for (const item of processedItems): the item of turn i of the loop
RollbackTurn(processed, i) == processed[i]

\* ------------------------------------------------------------------ responses
Respond(p, code, msg) ==
    /\ pc' = [pc EXCEPT ![p] = "done"]
    /\ status' = [status EXCEPT ![p] = code]
    /\ message' = [message EXCEPT ![p] = msg]

Goto(p, label) ==
    /\ pc' = [pc EXCEPT ![p] = label]
    /\ UNCHANGED <<status, message>>

\* an error leaving the handler: asyncHandler hands it to the error middleware
Rethrow(p) == Respond(p, 500, "Something went wrong!")

\* an error thrown inside the try block: the catch block restores the processed
\* items, one store call each, and throws the error again
\* the head of turn i of the validation loop: if (!book) return 404; the turn's
\* store call follows
ValidateFrom(p, i) ==
    IF cartItems[p][i].book = NullBook
       THEN Respond(p, 404, "One or more books not found") /\ UNCHANGED idx
       ELSE idx' = [idx EXCEPT ![p] = i] /\ Goto(p, "validate")

\* an error of the try block that is swallowed: the handler goes on to the debit
CatchAndGoOn(p, e) ==
    /\ error' = [error EXCEPT ![p] = e]
    /\ Goto(p, "debit")
    /\ UNCHANGED idx

Catch(p, e) ==
    /\ error' = [error EXCEPT ![p] = e]
    /\ IF processedItems[p] = <<>>
          THEN Rethrow(p) /\ UNCHANGED idx
          ELSE Goto(p, "rollback") /\ idx' = [idx EXCEPT ![p] = 1]

\* ------------------------------------------------------------------ createOrder
\* const cartItems = await Cart.find({ user: userId }).populate("book")
CartFind(p, u) ==
    /\ pc[p] = "idle"
    /\ LET items == Populate(CartFindByUser(cart, u), live) IN
       /\ userId' = [userId EXCEPT ![p] = u]
       /\ cartItems' = [cartItems EXCEPT ![p] = items]
       /\ IF IsEmptyCart(items)
             THEN Respond(p, 400, "Cart is empty")
             ELSE Goto(p, "findUser")
    /\ pre' = [pre EXCEPT ![p] = Snapshot]
    /\ UNCHANGED <<stores, userBalance, stockErrors, calculatedTotalPrice, idx,
                   processedItems, newOrder, error>>

\* const user = await User.findById(userId).select("balance")
UserFindById(p) ==
    /\ pc[p] = "findUser"
    /\ IF userId[p] \notin DOMAIN balance
          THEN Respond(p, 404, "User not found") /\ UNCHANGED <<userBalance, idx>>
          ELSE /\ userBalance' = [userBalance EXCEPT ![p] = balance[userId[p]]]
               /\ ValidateFrom(p, 1)
    /\ UNCHANGED <<stores, userId, cartItems, stockErrors, calculatedTotalPrice,
                   processedItems, newOrder, error, pre>>

\* one turn of the validation loop (its store call is Book.findById), then the
\* head of the next turn or, after the last turn, the two checks that follow the
\* loop; currentBook is null when the book is gone, and currentBook.price throws
ValidateItem(p) ==
    /\ pc[p] = "validate"
    /\ LET item == cartItems[p][idx[p]]
           found == item.book \in live
           s == IF found THEN stock[item.book] ELSE 0
           errs == IF ~found \/ IsShortage(s, item.quantity)
                      THEN Append(stockErrors[p], ShortageRecord(item.book, s, item.quantity))
                      ELSE stockErrors[p]
       IN
       /\ stockErrors' = [stockErrors EXCEPT ![p] = errs]
       /\ IF ~found
             THEN /\ error' = [error EXCEPT ![p] = NullPriceError]
                  /\ Rethrow(p)
                  /\ UNCHANGED <<calculatedTotalPrice, idx>>
             ELSE LET total == calculatedTotalPrice[p]
                                  + LineTotal(price[item.book], item.quantity) IN
                  /\ calculatedTotalPrice' = [calculatedTotalPrice EXCEPT ![p] = total]
                  /\ UNCHANGED error
                  /\ IF idx[p] < Len(cartItems[p])
                        THEN ValidateFrom(p, idx[p] + 1)
                        ELSE IF Len(errs) > 0
                                THEN /\ Respond(p, 400, "Insufficient stock for some items")
                                     /\ UNCHANGED idx
                                ELSE IF ExceedsBalance(total, userBalance[p])
                                        THEN /\ Respond(p, 400,
                                                        "Insufficient balance in your account")
                                             /\ UNCHANGED idx
                                        ELSE /\ idx' = [idx EXCEPT ![p] = 1]
                                             /\ Goto(p, "decrement")
    /\ UNCHANGED <<stores, userId, cartItems, userBalance, processedItems, newOrder, pre>>

\* one turn of the commit loop: Book.findOneAndUpdate with the stock filter
DecrementItem(p) ==
    /\ pc[p] = "decrement"
    /\ LET item == cartItems[p][idx[p]] IN
       IF item.book \in live /\ StockGuard(stock[item.book], item.quantity)
          THEN /\ stock' = DecrementStock(stock, item.book, item.quantity)
               /\ processedItems' = [processedItems EXCEPT ![p] =
                     Append(@, ProcessedRecord(item.book, item.quantity, price[item.book]))]
               /\ IF idx[p] < Len(cartItems[p])
                     THEN idx' = [idx EXCEPT ![p] = @ + 1] /\ Goto(p, "decrement")
                     ELSE UNCHANGED idx /\ Goto(p, "debit")
               /\ UNCHANGED error
          ELSE /\ Catch(p, "Insufficient stock for book")
               /\ UNCHANGED <<stock, processedItems>>
    /\ UNCHANGED <<catalogue, balance, cart, orders, userId, cartItems, userBalance,
                   stockErrors, calculatedTotalPrice, newOrder, pre>>

\* await User.findByIdAndUpdate(userId, { $inc: { balance: -calculatedTotalPrice } })
UserDebit(p) ==
    /\ pc[p] = "debit"
    /\ balance' = DebitBalance(balance, userId[p], calculatedTotalPrice[p])
    /\ Goto(p, "create")
    /\ UNCHANGED <<stock, catalogue, cart, orders, locals, pre>>

\* const newOrder = await Order.create({...})
OrderCreate(p) ==
    /\ pc[p] = "create"
    /\ orders' = Append(orders,
                        OrderDraft(userId[p], processedItems[p], calculatedTotalPrice[p]))
    /\ newOrder' = [newOrder EXCEPT ![p] = Len(orders) + 1]
    /\ Goto(p, "clear")
    /\ UNCHANGED <<stock, catalogue, balance, cart, userId, cartItems, userBalance,
                   stockErrors, calculatedTotalPrice, idx, processedItems, error, pre>>

\* await Cart.deleteMany({ user: userId })
CartClear(p) ==
    /\ pc[p] = "clear"
    /\ cart' = CartDeleteMany(cart, userId[p])
    /\ Goto(p, "read")
    /\ UNCHANGED <<stock, catalogue, balance, orders, locals, pre>>

\* const populatedOrder = await Order.findById(newOrder._id)...; res.status(201)
OrderFindById(p) ==
    /\ pc[p] = "read"
    /\ Respond(p, 201, "Order created successfully")
    /\ UNCHANGED <<stores, locals, pre>>

\* one turn of the loop of the catch block, and, after the last turn, throw error
RollbackItem(p) ==
    /\ pc[p] = "rollback"
    /\ LET item == RollbackTurn(processedItems[p], idx[p]) IN
       stock' = IF item.bookId \in live THEN RestoreStock(stock, item) ELSE stock
    /\ IF idx[p] < Len(processedItems[p])
          THEN idx' = [idx EXCEPT ![p] = @ + 1] /\ Goto(p, "rollback")
          ELSE UNCHANGED idx /\ Rethrow(p)
    /\ UNCHANGED <<catalogue, balance, cart, orders, userId, cartItems, userBalance,
                   stockErrors, calculatedTotalPrice, processedItems, newOrder, error, pre>>

\* the first store call of createOrder, Cart.find, rejects (connection lost):
\* the error leaves the handler
CartFindFault(p, u) ==
    /\ pc[p] = "idle"
    /\ userId' = [userId EXCEPT ![p] = u]
    /\ pre' = [pre EXCEPT ![p] = Snapshot]
    /\ error' = [error EXCEPT ![p] = "store error"]
    /\ Rethrow(p)
    /\ UNCHANGED <<stores, cartItems, userBalance, stockErrors, calculatedTotalPrice,
                   idx, processedItems, newOrder>>

\* a later store call of createOrder rejects (connection lost, write refused):
\* before the try block the error leaves the handler, inside it the catch block
\* runs
StoreFault(p) ==
    /\ pc[p] \in {"findUser", "validate", "decrement", "debit", "create", "clear", "read"}
    /\ IF pc[p] \in {"findUser", "validate"}
          THEN /\ error' = [error EXCEPT ![p] = "store error"]
               /\ Rethrow(p)
               /\ UNCHANGED idx
          ELSE Catch(p, "store error")
    /\ UNCHANGED <<stores, userId, cartItems, userBalance, stockErrors,
                   calculatedTotalPrice, processedItems, newOrder, pre>>

\* the response has been sent; the slot is free for the next request
Return(p) ==
    /\ pc[p] = "done"
    /\ pc' = [pc EXCEPT ![p] = "idle"]
    /\ userId' = [userId EXCEPT ![p] = 0]
    /\ cartItems' = [cartItems EXCEPT ![p] = <<>>]
    /\ userBalance' = [userBalance EXCEPT ![p] = 0]
    /\ stockErrors' = [stockErrors EXCEPT ![p] = <<>>]
    /\ calculatedTotalPrice' = [calculatedTotalPrice EXCEPT ![p] = 0]
    /\ idx' = [idx EXCEPT ![p] = 0]
    /\ processedItems' = [processedItems EXCEPT ![p] = <<>>]
    /\ newOrder' = [newOrder EXCEPT ![p] = 0]
    /\ status' = [status EXCEPT ![p] = 0]
    /\ message' = [message EXCEPT ![p] = ""]
    /\ error' = [error EXCEPT ![p] = ""]
    /\ pre' = [pre EXCEPT ![p] = NoSnapshot]
    /\ UNCHANGED stores

\* ------------------------------------------------------------------ specifications
\* the users who check out when requests are served one at a time
Customers == {1}

\* one request at a time, any store call of which may fail
Next ==
    \E p \in {1} :
        \/ \E u \in Customers : CartFind(p, u)
        \/ \E u \in Customers : CartFindFault(p, u)
        \/ UserFindById(p)
        \/ ValidateItem(p)
        \/ DecrementItem(p)
        \/ UserDebit(p)
        \/ OrderCreate(p)
        \/ CartClear(p)
        \/ OrderFindById(p)
        \/ RollbackItem(p)
        \/ StoreFault(p)
        \/ Return(p)

Spec == Init /\ [][Next]_vars

\* ------------------------------------------------------------------ faults in the catch block
\* Book.findByIdAndUpdate of the catch block rejects: the loop has no try of its
\* own, so the new error leaves the catch block and the handler at once
RollbackFault(p) ==
    /\ pc[p] = "rollback"
    /\ error' = [error EXCEPT ![p] = "store error in rollback"]
    /\ Rethrow(p)
    /\ UNCHANGED <<stores, userId, cartItems, userBalance, stockErrors,
                   calculatedTotalPrice, idx, processedItems, newOrder, pre>>

\* one request at a time, any store call of which may fail, those of the catch
\* block included
NextRollbackFault ==
    \/ Next
    \/ \E p \in {1} : RollbackFault(p)

SpecRollbackFault == Init /\ [][NextRollbackFault]_vars

\* the store call request p is waiting for settles: it resolves or it rejects
Settle(p) ==
    \/ UserFindById(p)
    \/ ValidateItem(p)
    \/ DecrementItem(p)
    \/ UserDebit(p)
    \/ OrderCreate(p)
    \/ CartClear(p)
    \/ OrderFindById(p)
    \/ RollbackItem(p)
    \/ StoreFault(p)
    \/ RollbackFault(p)

\* the same, where every store call settles in the end and the event loop then
\* resumes the handler
SpecRollbackFaultFair == SpecRollbackFault /\ \A p \in {1} : WF_vars(Settle(p))

\* ------------------------------------------------------------------ updateBook
\* the store write of updateBook (src/controllers/bookController.js), for a
\* request that gives both price and stock: Joi admits a positive price and a
\* stock >= 0
BookUpdate(b, newPrice, newStock) ==
    /\ b \in live
    /\ edits < MaxEdits
    /\ edits' = edits + 1
    /\ price' = [price EXCEPT ![b] = newPrice]
    /\ stock' = [stock EXCEPT ![b] = newStock]
    /\ UNCHANGED <<live, answer, adding, access, balance, cart, orders, locals, reply, pre>>

UpdateBook ==
    \E b \in Books, newPrice \in 1..MaxPrice, newStock \in 0..MaxQty :
        BookUpdate(b, newPrice, newStock)

\* one checkout at a time, with administrative book updates between its store calls
NextAdmin ==
    \/ \E p \in {1} :
        \/ \E u \in Customers : CartFind(p, u)
        \/ UserFindById(p)
        \/ ValidateItem(p)
        \/ DecrementItem(p)
        \/ UserDebit(p)
        \/ OrderCreate(p)
        \/ CartClear(p)
        \/ OrderFindById(p)
        \/ RollbackItem(p)
        \/ Return(p)
    \/ UpdateBook

SpecAdmin == Init /\ [][NextAdmin]_vars

\* ------------------------------------------------------------------ deleteBook
\* deleteBook (src/controllers/bookController.js): Book.findByIdAndDelete(id) of a
\* book that Book.findById found; the cart lines that reference it stay
DeleteBook(b) ==
    /\ b \in live
    /\ live' = live \ {b}
    /\ UNCHANGED <<stock, price, edits, answer, adding, access, balance, cart, orders,
                   locals, reply, pre>>

\* one checkout at a time, with books deleted between its store calls
NextDelete ==
    \/ \E p \in {1} :
        \/ \E u \in Customers : CartFind(p, u)
        \/ UserFindById(p)
        \/ ValidateItem(p)
        \/ DecrementItem(p)
        \/ UserDebit(p)
        \/ OrderCreate(p)
        \/ CartClear(p)
        \/ OrderFindById(p)
        \/ RollbackItem(p)
        \/ Return(p)
    \/ \E b \in Books : DeleteBook(b)

SpecDelete == Init /\ [][NextDelete]_vars

\* ------------------------------------------------------------------ order queries and status
\* everything but the response of the order queries
checkout == <<stock, price, live, balance, cart, locals, reply, pre, adding, access>>

\* const validStatuses
validStatuses == {"pending", "processing", "shipped", "delivered", "cancelled"}

\* the values of req.body.status: the valid ones and one that is not
StatusInputs == validStatuses \cup {"refunded"}

\* an order of an earlier checkout: one copy of book 1 at its first price
PastOrder(u, st) ==
    [user |-> u,
     items |-> <<[book |-> 1, quantity |-> 1, price |-> InitialPrice(1)]>>,
     totalPrice |-> InitialPrice(1),
     status |-> st]

\* the Order collection left by earlier checkouts and status updates
PastOrderSeqs ==
    UNION {[1..n -> {PastOrder(u, st) : u \in Users, st \in validStatuses}] :
              n \in 0..MaxPastOrders}

\* req.params.orderId: the ids of the orders there can be, and one more
OrderIds == 1..(MaxPastOrders + MaxQty + 1)

\* the document of the i-th order: its _id is its position in the collection,
\* which is kept in creation order, so its createdAt grows with i
Doc(ords, i) == [id |-> i, createdAt |-> i, order |-> ords[i]]

Docs(ords) == [i \in DOMAIN ords |-> Doc(ords, i)]

\* Order.find({ user: req.user.userId })
OrderFindByUser(ords, u) == SelectSeq(Docs(ords), LAMBDA d : d.order.user = u)

RECURSIVE InsertNewestFirst(_, _)
\* d put in its place in a list sorted by decreasing createdAt
InsertNewestFirst(d, sorted) ==
    IF sorted = <<>> THEN <<d>>
    ELSE IF d.createdAt >= Head(sorted).createdAt THEN <<d>> \o sorted
    ELSE <<Head(sorted)>> \o InsertNewestFirst(d, Tail(sorted))

\* the documents left in the order Order.find yields them
SortNot(docs) == docs

RECURSIVE SortNewestFirst(_)
\* .sort({ createdAt: -1 })
SortNewestFirst(docs) ==
    IF docs = <<>> THEN <<>>
    ELSE InsertNewestFirst(Head(docs), SortNewestFirst(Tail(docs)))

\* getOrderById without its ownership check
OrderByIdResponseAnyUser(ords, u, id) ==
    IF id \notin DOMAIN ords
       THEN [status |-> 404, message |-> "Order not found", body |-> <<>>]
       ELSE [status |-> 200, message |-> "Order retrieved successfully",
             body |-> <<Doc(ords, id)>>]

\* the response of getOrderById; /orders/all never reaches it, the router
\* matches the /all route first
OrderByIdResponse(ords, u, id) ==
    IF id \notin DOMAIN ords
       THEN [status |-> 404, message |-> "Order not found", body |-> <<>>]
       ELSE IF ords[id].user # u
               THEN [status |-> 403, message |-> "Unauthorized access to order",
                     body |-> <<>>]
               ELSE [status |-> 200, message |-> "Order retrieved successfully",
                     body |-> <<Doc(ords, id)>>]

\* the request an answer belongs to
Request(name, u, id, st) == [op |-> name, requester |-> u, orderId |-> id, input |-> st]

Answer(request, response) ==
    [op |-> request.op, requester |-> request.requester, orderId |-> request.orderId,
     input |-> request.input, status |-> response.status, message |-> response.message,
     body |-> response.body]

\* getOrderById of user u for order id
GetOrderById(u, id) ==
    /\ answer = NoAnswer
    /\ answer' = Answer(Request("getOrderById", u, id, ""), OrderByIdResponse(orders, u, id))
    /\ UNCHANGED <<checkout, edits, orders>>

\* getUserOrders of user u
GetUserOrders(u) ==
    /\ answer = NoAnswer
    /\ answer' = Answer(Request("getUserOrders", u, 0, ""),
                        [status |-> 200, message |-> "Orders retrieved successfully",
                         body |-> SortNewestFirst(OrderFindByUser(orders, u))])
    /\ UNCHANGED <<checkout, edits, orders>>

\* a status update that only lets a pending order move
SetStatusOfPending(ords, id, st) ==
    IF ords[id].status = "pending" THEN [ords EXCEPT ![id].status = st] ELSE ords

\* Order.findByIdAndUpdate(orderId, { status: status }, { new: true })
SetStatus(ords, id, st) == [ords EXCEPT ![id].status = st]

\* updateOrderStatus of an administrator: order id, new status st
UpdateOrderStatus(id, st) ==
    /\ answer = NoAnswer
    /\ edits < MaxEdits
    /\ edits' = edits + 1
    /\ IF st \notin validStatuses
          THEN /\ answer' = Answer(Request("updateOrderStatus", 0, id, st),
                                   [status |-> 400, message |-> "Invalid status",
                                    body |-> <<>>])
               /\ UNCHANGED orders
          ELSE IF id \notin DOMAIN orders
                  THEN /\ answer' = Answer(Request("updateOrderStatus", 0, id, st),
                                           [status |-> 404, message |-> "Order not found",
                                            body |-> <<>>])
                       /\ UNCHANGED orders
                  ELSE /\ orders' = SetStatus(orders, id, st)
                       /\ answer' = Answer(Request("updateOrderStatus", 0, id, st),
                                           [status |-> 200,
                                            message |-> "Order status updated successfully",
                                            body |-> <<Doc(orders', id)>>])
    /\ UNCHANGED checkout

\* the response has been sent
AnswerSent ==
    /\ answer # NoAnswer
    /\ answer' = NoAnswer
    /\ UNCHANGED <<checkout, edits, orders>>

\* the customers have one copy of book 1 in their cart, stock and balance for it,
\* and the orders of earlier checkouts
InitOrders ==
    /\ stock = [b \in Books |-> MaxQty]
    /\ price = [b \in Books |-> InitialPrice(b)]
    /\ balance = [u \in Users |-> MaxBalance]
    /\ cart = [u \in Users |-> <<[book |-> 1, quantity |-> 1]>>]
    /\ orders \in PastOrderSeqs
    /\ InitLocals

\* checkouts one at a time, any store call of the try block may fail, with order
\* queries and status updates between the store calls
NextOrders ==
    \/ \E p \in {1} :
        \/ \E u \in Customers : CartFind(p, u)
        \/ UserFindById(p)
        \/ ValidateItem(p)
        \/ DecrementItem(p)
        \/ UserDebit(p)
        \/ OrderCreate(p)
        \/ CartClear(p)
        \/ OrderFindById(p)
        \/ RollbackItem(p)
        \/ StoreFault(p)
        \/ Return(p)
    \/ \E u \in Users, id \in OrderIds : GetOrderById(u, id)
    \/ \E u \in Users : GetUserOrders(u)
    \/ \E id \in OrderIds, st \in StatusInputs : UpdateOrderStatus(id, st)
    \/ AnswerSent

SpecOrders == InitOrders /\ [][NextOrders]_vars

\* ------------------------------------------------------------------ getAllOrders
\* const { status, page = 1, limit = 10 } = req.query
DefaultPage == 1
DefaultLimit == 10

\* a query parameter the client leaves out, and one it sets to the number n
NotGiven == [given |-> FALSE, value |-> 0]
Given(n) == [given |-> TRUE, value |-> n]

RECURSIVE Digits(_)
\* the decimal digits of n, as the client writes them in the query string
Digits(n) == IF n < 10 THEN <<n>> ELSE Digits(n \div 10) \o <<n % 10>>

\* req.query.page, req.query.limit: a string of digits, or undefined
QueryValue(param) ==
    [given |-> param.given, text |-> IF param.given THEN Digits(param.value) ELSE <<>>]

RECURSIVE ParseInt(_)
\* parseInt of a string of decimal digits
ParseInt(text) ==
    IF text = <<>> THEN 0
    ELSE 10 * ParseInt(SubSeq(text, 1, Len(text) - 1)) + text[Len(text)]

\* parseInt(page), parseInt(limit) after the destructuring default
ParseIntOr(q, default) == IF q.given THEN ParseInt(q.text) ELSE default

\* the integer quotient, rounded down
Floor(a, b) == a \div b

\* Math.ceil(a / b) for a >= 0, b >= 1
Ceil(a, b) == IF a % b = 0 THEN a \div b ELSE a \div b + 1

\* if (status) query.status = status; Order.find(query)
OrderFindByStatus(ords, st) ==
    SelectSeq(Docs(ords), LAMBDA d : st = "" \/ d.order.status = st)

\* .skip(skip).limit(limit)
SkipLimit(docs, skip, limit) ==
    IF skip >= Len(docs) THEN <<>>
    ELSE SubSeq(docs, skip + 1, IF skip + limit < Len(docs) THEN skip + limit ELSE Len(docs))

\* the body of the response of getAllOrders, with the skip and limit handed to
\* the store
AllOrdersBody(ords, st, page, limit) ==
    LET skip == (page - 1) * limit
        found == OrderFindByStatus(ords, st)
        totalOrders == Len(found)
    IN
    [orders |-> SkipLimit(SortNewestFirst(found), skip, limit),
     find |-> [skip |-> skip, limit |-> limit],
     pagination |-> [currentPage |-> page,
                     totalPages |-> Ceil(totalOrders, limit),
                     totalOrders |-> totalOrders,
                     hasNext |-> page * limit < totalOrders,
                     hasPrev |-> page > 1]]

\* getAllOrders of an administrator; no order is written between its two store
\* calls, Order.find and Order.countDocuments
GetAllOrders(st, pageParam, limitParam) ==
    /\ answer = NoAnswer
    /\ LET page == ParseIntOr(QueryValue(pageParam), DefaultPage)
           limit == ParseIntOr(QueryValue(limitParam), DefaultLimit)
       IN
       answer' = Answer(Request("getAllOrders", 0, 0,
                                [status |-> st, page |-> pageParam, limit |-> limitParam]),
                        [status |-> 200, message |-> "All orders retrieved successfully",
                         body |-> AllOrdersBody(orders, st, page, limit)])
    /\ UNCHANGED <<checkout, edits, orders>>

\* n orders of earlier checkouts, pending and shipped in turn
PagedOrders(n) == [i \in 1..n |-> PastOrder(1, IF i % 2 = 1 THEN "pending" ELSE "shipped")]

\* any number of orders, and no cart to check out
InitPage ==
    /\ stock = [b \in Books |-> MaxQty]
    /\ price = [b \in Books |-> InitialPrice(b)]
    /\ balance = [u \in Users |-> MaxBalance]
    /\ cart = [u \in Users |-> <<>>]
    /\ \E n \in 0..MaxTotal : orders = PagedOrders(n)
    /\ InitLocals

PageParams == {NotGiven} \cup {Given(n) : n \in 1..MaxPage}
LimitParams == {NotGiven} \cup {Given(n) : n \in 1..MaxLimit}

NextPage ==
    \/ \E st \in {"", "pending", "shipped"}, pageParam \in PageParams,
          limitParam \in LimitParams : GetAllOrders(st, pageParam, limitParam)
    \/ AnswerSent

SpecPage == InitPage /\ [][NextPage]_vars

\* ------------------------------------------------------------------ addItemToCart
\* Cart.findOne({ user, book: bookId }): the position of the first line of the
\* user's cart for the book, 0 when there is none
CartFindOne(lines, b) ==
    IF \E i \in DOMAIN lines : lines[i].book = b
       THEN CHOOSE i \in DOMAIN lines :
               lines[i].book = b /\ \A j \in 1..(i - 1) : lines[j].book # b
       ELSE 0

\* the total without the quantity of the line found
TotalQuantityAdded(lineQuantity, q) == q

\* cartItem ? cartItem.quantity + quantity : quantity
TotalQuantity(lineQuantity, q) == lineQuantity + q

\* cartItem.quantity += quantity; await cartItem.save(): the new quantity is
\* written over the stored one
CartSave(c, u, i, newQuantity) == [c EXCEPT ![u][i].quantity = newQuantity]

\* Cart.create({ user, book: bookId, quantity })
CartCreate(c, u, b, q) == [c EXCEPT ![u] = Append(@, [book |-> b, quantity |-> q])]

\* what an add-to-cart request leaves alone
notCart == <<stock, price, edits, live, answer, balance, orders, cartItems, userBalance,
             stockErrors, calculatedTotalPrice, idx, processedItems, newOrder, error,
             access>>

\* const checkBook = await Book.findById(bookId), for a body Joi admits
\* (quantity an integer >= 1)
AddFindBook(p, u, b, q) ==
    /\ pc[p] = "idle"
    /\ userId' = [userId EXCEPT ![p] = u]
    /\ pre' = [pre EXCEPT ![p] = Snapshot]
    /\ adding' = [adding EXCEPT ![p] =
                     [bookId |-> b, quantity |-> q,
                      stock |-> IF b \in live THEN stock[b] ELSE 0,
                      line |-> 0, lineQuantity |-> 0]]
    /\ IF b \notin live
          THEN Respond(p, 404, "Book not found")
          ELSE Goto(p, "addFindOne")
    /\ UNCHANGED <<notCart, cart>>

\* let cartItem = await Cart.findOne(...), then the stock check
AddFindOne(p) ==
    /\ pc[p] = "addFindOne"
    /\ LET lines == cart[userId[p]]
           i == CartFindOne(lines, adding[p].bookId)
           lineQuantity == IF i = 0 THEN 0 ELSE lines[i].quantity
       IN
       /\ adding' = [adding EXCEPT ![p].line = i, ![p].lineQuantity = lineQuantity]
       /\ IF adding[p].stock < TotalQuantity(lineQuantity, adding[p].quantity)
             THEN Respond(p, 400, "Insufficient stock available")
             ELSE Goto(p, "addWrite")
    /\ UNCHANGED <<notCart, cart, userId, pre>>

\* the line held by a request whose document has been deleted since
Gone == -1

\* the document request p holds (cartItem) is still in the user's cart; line is
\* its position there
Held(p) == adding[p].line \in DOMAIN cart[userId[p]]

\* cartItem.save() of a document that is no longer in the collection: it writes
\* nothing; whether it rejects (DocumentNotFoundError) or resolves depends on
\* the Mongoose version
SaveGone(p, code, msg) ==
    /\ UNCHANGED cart
    /\ (Rethrow(p) \/ Respond(p, code, msg))

\* await cartItem.save() of the line found, or await Cart.create(...) if none was
AddWrite(p) ==
    /\ pc[p] = "addWrite"
    /\ IF adding[p].line # 0
          THEN IF Held(p)
                  THEN /\ cart' = CartSave(cart, userId[p], adding[p].line,
                                           adding[p].lineQuantity + adding[p].quantity)
                       /\ Respond(p, 200, "Cart updated successfully")
                  ELSE SaveGone(p, 200, "Cart updated successfully")
          ELSE /\ cart' = CartCreate(cart, userId[p], adding[p].bookId, adding[p].quantity)
               /\ Respond(p, 201, "Item added to cart successfully")
    /\ UNCHANGED <<notCart, adding, userId, pre>>

\* ------------------------------------------------------------------ updateCartItem
\* the lines of a cart without the one at position i
RemoveAt(lines, i) == SubSeq(lines, 1, i - 1) \o SubSeq(lines, i + 1, Len(lines))

\* Cart.findByIdAndDelete(itemId)
CartDeleteOne(c, u, i) == [c EXCEPT ![u] = RemoveAt(@, i)]

\* the documents the other requests of user u hold, after the document at
\* position i of the user's cart was deleted: the positions after i move up,
\* the holders of the deleted document hold nothing
Retarget(ad, u, i) ==
    [q \in Procs |->
        IF userId[q] # u \/ pc[q] \in {"idle", "done"} \/ ad[q].line < i THEN ad[q]
        ELSE IF ad[q].line = i THEN [ad[q] EXCEPT !.line = Gone]
        ELSE [ad[q] EXCEPT !.line = @ - 1]]

\* const cartItem = await Cart.findById(itemId), for a body Joi admits (quantity
\* an integer >= 0); itemId names position i of the cart of user v, and no
\* document when the cart has no such position; then the ownership check
UpdFindItem(p, u, v, i, q) ==
    /\ pc[p] = "idle"
    /\ userId' = [userId EXCEPT ![p] = u]
    /\ pre' = [pre EXCEPT ![p] = Snapshot]
    /\ IF i \notin DOMAIN cart[v]
          THEN /\ Respond(p, 404, "Cart item not found")
               /\ UNCHANGED adding
          ELSE /\ adding' = [adding EXCEPT ![p] =
                               [bookId |-> cart[v][i].book, quantity |-> q, stock |-> 0,
                                line |-> i, lineQuantity |-> cart[v][i].quantity]]
               /\ IF v # u
                     THEN Respond(p, 403, "Unauthorized access to cart item")
                     ELSE IF q = 0 THEN Goto(p, "updDelete") ELSE Goto(p, "updFindBook")
    /\ UNCHANGED <<notCart, cart>>

\* if (quantity === 0) await Cart.findByIdAndDelete(itemId)
UpdDelete(p) ==
    /\ pc[p] = "updDelete"
    /\ IF Held(p)
          THEN /\ cart' = CartDeleteOne(cart, userId[p], adding[p].line)
               /\ adding' = Retarget(adding, userId[p], adding[p].line)
          ELSE UNCHANGED <<cart, adding>>
    /\ Respond(p, 200, "Cart item removed successfully")
    /\ UNCHANGED <<notCart, userId, pre>>

\* const book = await Book.findById(cartItem.book), then the stock check
UpdFindBook(p) ==
    /\ pc[p] = "updFindBook"
    /\ IF adding[p].bookId \notin live
          THEN Respond(p, 404, "Associated book not found") /\ UNCHANGED adding
          ELSE /\ adding' = [adding EXCEPT ![p].stock = stock[adding[p].bookId]]
               /\ IF stock[adding[p].bookId] < adding[p].quantity
                     THEN Respond(p, 400, "Insufficient stock available")
                     ELSE Goto(p, "updSave")
    /\ UNCHANGED <<notCart, cart, userId, pre>>

\* cartItem.quantity = quantity; await cartItem.save()
UpdSave(p) ==
    /\ pc[p] = "updSave"
    /\ IF Held(p)
          THEN /\ cart' = CartSave(cart, userId[p], adding[p].line, adding[p].quantity)
               /\ Respond(p, 200, "Cart item updated successfully")
          ELSE SaveGone(p, 200, "Cart item updated successfully")
    /\ UNCHANGED <<notCart, adding, userId, pre>>

\* the customer has any cart, the books any stock
InitCart ==
    /\ stock \in [Books -> 0..MaxQty]
    /\ price = [b \in Books |-> InitialPrice(b)]
    /\ balance = [u \in Users |-> MaxBalance]
    /\ \E c \in CartSeqs :
          cart = [u \in Users |-> IF u = 1 THEN c ELSE <<[book |-> 1, quantity |-> 1]>>]
    /\ orders = <<>>
    /\ InitLocals

\* one add-to-cart or update-cart request per request slot, interleaved at their
\* store calls
NextCart ==
    \E p \in Procs :
        \/ \E u \in Customers, b \in Books, q \in 1..MaxQty : AddFindBook(p, u, b, q)
        \/ AddFindOne(p)
        \/ AddWrite(p)
        \/ \E u \in Customers, v \in Users, i \in 1..(NumBooks + 1), q \in 0..MaxQty :
              UpdFindItem(p, u, v, i, q)
        \/ UpdDelete(p)
        \/ UpdFindBook(p)
        \/ UpdSave(p)

SpecCart == InitCart /\ [][NextCart]_vars

\* ------------------------------------------------------------------ checkout beside cart requests
\* one checkout and one add-to-cart or update-cart request of the same user,
\* interleaved at their store calls
NextCartCheckout ==
    \/ \E p \in {1} :
        \/ \E u \in Customers : CartFind(p, u)
        \/ UserFindById(p)
        \/ ValidateItem(p)
        \/ DecrementItem(p)
        \/ UserDebit(p)
        \/ OrderCreate(p)
        \/ CartClear(p)
        \/ OrderFindById(p)
    \/ \E p \in {2} :
        \/ \E u \in Customers, b \in Books, q \in 1..MaxQty : AddFindBook(p, u, b, q)
        \/ AddFindOne(p)
        \/ AddWrite(p)
        \/ \E u \in Customers, v \in Users, i \in 1..(NumBooks + 1), q \in 0..MaxQty :
              UpdFindItem(p, u, v, i, q)
        \/ UpdDelete(p)
        \/ UpdFindBook(p)
        \/ UpdSave(p)

SpecCartCheckout == Init /\ [][NextCartCheckout]_vars

\* ------------------------------------------------------------------ concurrent checkouts
\* every user has any cart and the full balance
InitConc ==
    /\ stock \in [Books -> 0..MaxQty]
    /\ price = [b \in Books |-> InitialPrice(b)]
    /\ balance = [u \in Users |-> MaxBalance]
    /\ cart \in [Users -> CartSeqs]
    /\ orders = <<>>
    /\ InitLocals

\* one checkout per request slot, of the same or of different users, interleaved
\* at their store calls
NextConc ==
    \E p \in Procs :
        \/ \E u \in Users : CartFind(p, u)
        \/ UserFindById(p)
        \/ ValidateItem(p)
        \/ DecrementItem(p)
        \/ UserDebit(p)
        \/ OrderCreate(p)
        \/ CartClear(p)
        \/ OrderFindById(p)
        \/ RollbackItem(p)

SpecConc == InitConc /\ [][NextConc]_vars

\* ------------------------------------------------------------------ createOrder, earlier variant
\* .populate("book") as the earlier createOrder uses it: the book document of
\* each line, with the stock and the price it has when the cart is read
PopulateDocs(items, lv, st, pr) ==
    [i \in DOMAIN items |->
        IF items[i].book \in lv
           THEN [book |-> items[i].book, quantity |-> items[i].quantity,
                 stock |-> st[items[i].book], price |-> pr[items[i].book]]
           ELSE [book |-> NullBook, quantity |-> items[i].quantity, stock |-> 0, price |-> 0]]

RECURSIVE ShortagesRead(_)
\* stockErrors after the validation loop over the populated lines
ShortagesRead(items) ==
    IF items = <<>> THEN <<>>
    ELSE (IF IsShortage(Head(items).stock, Head(items).quantity)
             THEN <<ShortageRecord(Head(items).book, Head(items).stock, Head(items).quantity)>>
             ELSE <<>>) \o ShortagesRead(Tail(items))

RECURSIVE TotalRead(_)
\* calculatedTotalPrice after the validation loop over the populated lines
TotalRead(items) ==
    IF items = <<>> THEN 0
    ELSE LineTotal(Head(items).price, Head(items).quantity) + TotalRead(Tail(items))

\* cartItems.map(cartItem => ({ book, quantity, price: cartItem.book.price }))
OrderItemsRead(items) ==
    [i \in DOMAIN items |->
        [book |-> items[i].book, quantity |-> items[i].quantity, price |-> items[i].price]]

\* Book.updateOne({ _id }, { $inc: { stock: cartItem.quantity } })
RestoreLine(st, item) == [st EXCEPT ![item.book] = @ + item.quantity]

\* User.updateOne({ _id: userId }, { $inc: { balance: calculatedTotalPrice } })
RecreditBalance(bal, u, total) == [bal EXCEPT ![u] = @ + total]

\* Cart.find with populate, then the validation loop and the stock check, which
\* make no store call
VariantCartFind(p, u) ==
    /\ pc[p] = "idle"
    /\ LET items == PopulateDocs(CartFindByUser(cart, u), live, stock, price)
           errs == ShortagesRead(items)
       IN
       /\ userId' = [userId EXCEPT ![p] = u]
       /\ cartItems' = [cartItems EXCEPT ![p] = items]
       /\ IF IsEmptyCart(items)
             THEN /\ Respond(p, 400, "Cart is empty")
                  /\ UNCHANGED <<stockErrors, calculatedTotalPrice>>
             ELSE IF \E i \in DOMAIN items : items[i].book = NullBook
             THEN /\ Respond(p, 404, "One or more books not found")
                  /\ UNCHANGED <<stockErrors, calculatedTotalPrice>>
             ELSE /\ stockErrors' = [stockErrors EXCEPT ![p] = errs]
                  /\ calculatedTotalPrice' = [calculatedTotalPrice EXCEPT ![p] = TotalRead(items)]
                  /\ IF Len(errs) > 0
                        THEN Respond(p, 400, "Insufficient stock for some items")
                        ELSE Goto(p, "vFindUser")
    /\ pre' = [pre EXCEPT ![p] = Snapshot]
    /\ UNCHANGED <<stores, userBalance, idx, processedItems, newOrder, error>>

\* const user = await User.findOne({ _id: userId }).select("balance")
VariantUserFindOne(p) ==
    /\ pc[p] = "vFindUser"
    /\ userBalance' = [userBalance EXCEPT ![p] = balance[userId[p]]]
    /\ IF ExceedsBalance(calculatedTotalPrice[p], balance[userId[p]])
          THEN Respond(p, 400, "Insufficient balance in your account") /\ UNCHANGED idx
          ELSE idx' = [idx EXCEPT ![p] = 1] /\ Goto(p, "vDecrement")
    /\ UNCHANGED <<stores, userId, cartItems, stockErrors, calculatedTotalPrice,
                   processedItems, newOrder, error, pre>>

\* the catch block starts: its loop runs over cartItems
VariantCatch(p, e) ==
    /\ error' = [error EXCEPT ![p] = e]
    /\ idx' = [idx EXCEPT ![p] = 1]
    /\ Goto(p, "vRestore")

\* one turn of the loop of the try block: Book.updateOne with the stock filter
VariantDecrement(p) ==
    /\ pc[p] = "vDecrement"
    /\ LET item == cartItems[p][idx[p]] IN
       IF item.book \in live /\ StockGuard(stock[item.book], item.quantity)
          THEN /\ stock' = DecrementStock(stock, item.book, item.quantity)
               /\ IF idx[p] < Len(cartItems[p])
                     THEN idx' = [idx EXCEPT ![p] = @ + 1] /\ Goto(p, "vDecrement")
                     ELSE UNCHANGED idx /\ Goto(p, "vDebit")
               /\ UNCHANGED error
          ELSE /\ VariantCatch(p, "Insufficient stock for book")
               /\ UNCHANGED stock
    /\ UNCHANGED <<catalogue, balance, cart, orders, userId, cartItems, userBalance,
                   stockErrors, calculatedTotalPrice, processedItems, newOrder, pre>>

\* await User.updateOne({ _id: userId }, { $inc: { balance: -calculatedTotalPrice } })
VariantDebit(p) ==
    /\ pc[p] = "vDebit"
    /\ balance' = DebitBalance(balance, userId[p], calculatedTotalPrice[p])
    /\ Goto(p, "vCreate")
    /\ UNCHANGED <<stock, catalogue, cart, orders, locals, pre>>

\* const newOrder = await Order.create({...})
VariantCreate(p) ==
    /\ pc[p] = "vCreate"
    /\ orders' = Append(orders, [user |-> userId[p], items |-> OrderItemsRead(cartItems[p]),
                                 totalPrice |-> calculatedTotalPrice[p], status |-> "pending"])
    /\ newOrder' = [newOrder EXCEPT ![p] = Len(orders) + 1]
    /\ Goto(p, "vClear")
    /\ UNCHANGED <<stock, catalogue, balance, cart, userId, cartItems, userBalance,
                   stockErrors, calculatedTotalPrice, idx, processedItems, error, pre>>

\* await Cart.deleteMany({ user: userId })
VariantClear(p) ==
    /\ pc[p] = "vClear"
    /\ cart' = CartDeleteMany(cart, userId[p])
    /\ Goto(p, "vRead")
    /\ UNCHANGED <<stock, catalogue, balance, orders, locals, pre>>

\* const populatedOrder = await Order.findById(newOrder._id)...; res.status(201)
VariantRead(p) ==
    /\ pc[p] = "vRead"
    /\ Respond(p, 201, "Order created successfully")
    /\ UNCHANGED <<stores, locals, pre>>

\* one turn of the loop of the catch block: for (const cartItem of cartItems)
VariantRestore(p) ==
    /\ pc[p] = "vRestore"
    /\ LET item == cartItems[p][idx[p]] IN
       stock' = IF item.book \in live THEN RestoreLine(stock, item) ELSE stock
    /\ IF idx[p] < Len(cartItems[p])
          THEN idx' = [idx EXCEPT ![p] = @ + 1] /\ Goto(p, "vRestore")
          ELSE UNCHANGED idx /\ Goto(p, "vRecredit")
    /\ UNCHANGED <<catalogue, balance, cart, orders, userId, cartItems, userBalance,
                   stockErrors, calculatedTotalPrice, processedItems, newOrder, error, pre>>

\* await User.updateOne(... { $inc: { balance: calculatedTotalPrice } }); throw error
VariantRecredit(p) ==
    /\ pc[p] = "vRecredit"
    /\ balance' = RecreditBalance(balance, userId[p], calculatedTotalPrice[p])
    /\ Rethrow(p)
    /\ UNCHANGED <<stock, catalogue, cart, orders, locals, pre>>

\* the store call about to be made rejects: before the try block and inside the
\* catch block the error leaves the handler, inside the try block the catch
\* block runs
VariantFault(p) ==
    /\ pc[p] \in {"vFindUser", "vDecrement", "vDebit", "vCreate", "vClear", "vRead",
                  "vRestore", "vRecredit"}
    /\ IF pc[p] \in {"vFindUser", "vRestore", "vRecredit"}
          THEN /\ error' = [error EXCEPT ![p] = "store error"]
               /\ Rethrow(p)
               /\ UNCHANGED idx
          ELSE VariantCatch(p, "store error")
    /\ UNCHANGED <<stores, userId, cartItems, userBalance, stockErrors,
                   calculatedTotalPrice, processedItems, newOrder, pre>>

\* concurrent checkouts of the earlier variant, any store call of which may fail
NextVariant ==
    \E p \in Procs :
        \/ \E u \in Users : VariantCartFind(p, u)
        \/ VariantUserFindOne(p)
        \/ VariantDecrement(p)
        \/ VariantDebit(p)
        \/ VariantCreate(p)
        \/ VariantClear(p)
        \/ VariantRead(p)
        \/ VariantRestore(p)
        \/ VariantRecredit(p)
        \/ VariantFault(p)

SpecVariant == Init /\ [][NextVariant]_vars

\* ------------------------------------------------------------------ time
Max(a, b) == IF a > b THEN a ELSE b

\* the Code documents one step of time later
CodesLater(cs) ==
    [c \in DOMAIN cs |->
        IF cs[c].expiresIn > 0
           THEN [cs[c] EXCEPT !.expiresIn = Max(0, @ - TickSeconds)]
           ELSE cs[c]]

\* the counter store one step of time later: a key whose time to live has run
\* out is deleted
KeysLater(ks) ==
    [k \in DOMAIN ks |->
        IF ks[k].ttl > TickSeconds THEN [ks[k] EXCEPT !.ttl = @ - TickSeconds]
        ELSE IF ks[k].ttl > 0 THEN NoKey
        ELSE ks[k]]

\* a step of time; with a key its window ends, and the requests counted in it
\* that are still running (stale) belong to the window that has ended
Elapse ==
    /\ \/ \E c \in Codes : codes[c].expiresIn > 0
       \/ \E k \in Keys : limiter[k].ttl > 0
    /\ codes' = CodesLater(codes)
    /\ limiter' = KeysLater(limiter)
    /\ lim' = [p \in Procs |->
                 IF lim[p] # NoLim /\ limiter[lim[p].key] # NoKey /\ limiter'[lim[p].key] = NoKey
                    THEN [lim[p] EXCEPT !.stale = TRUE]
                    ELSE lim[p]]
    /\ UNCHANGED <<stock, price, edits, live, answer, adding, checkCode, balance, cart,
                   orders, locals, reply, pre>>

\* ------------------------------------------------------------------ redeemCode
\* the filter of Code.findOne in redeemCode: active, not used, and without
\* expiry or not yet expired
Redeemable(doc) ==
    /\ doc.isActive
    /\ ~doc.isUsed
    /\ (doc.expiresIn = NoExpiry \/ doc.expiresIn > 0)

\* Code.findOneAndUpdate({ code: code }, { $set: { isUsed: true, usedBy } })
MarkUsed(cs, c, u) == [cs EXCEPT ![c].isUsed = TRUE, ![c].usedBy = u]

\* User.findByIdAndUpdate(userId, { $inc: { balance: checkCode.value } })
CreditBalance(bal, u, v) == [bal EXCEPT ![u] = @ + v]

\* what redeemCode leaves alone
notRedeem == <<stock, price, edits, live, answer, adding, limiter, lim, cart,
               orders, cartItems, userBalance, stockErrors, calculatedTotalPrice, idx,
               processedItems, newOrder, error>>

\* the values of req.body.code
CodeInputs == Codes \cup {UnknownCode, MalformedCode}

\* redeemCodeValidation, then const checkCode = await Code.findOne(...)
RedeemFindOne(p, u, c) ==
    /\ pc[p] = "idle"
    /\ userId' = [userId EXCEPT ![p] = u]
    /\ pre' = [pre EXCEPT ![p] = Snapshot]
    /\ IF c = MalformedCode
          THEN /\ Respond(p, 400, "Code must be exactly 8 characters long")
               /\ checkCode' = [checkCode EXCEPT ![p] = [NoCode EXCEPT !.code = c]]
          ELSE IF c \in Codes /\ Redeemable(codes[c])
          THEN /\ Goto(p, "redeemMark")
               /\ checkCode' = [checkCode EXCEPT ![p] =
                                   [code |-> c, found |-> TRUE, value |-> codes[c].value]]
          ELSE /\ Respond(p, 404, "invalid code")
               /\ checkCode' = [checkCode EXCEPT ![p] = [NoCode EXCEPT !.code = c]]
    /\ UNCHANGED <<notRedeem, codes, balance>>

\* await Code.findOneAndUpdate(...)
RedeemMark(p) ==
    /\ pc[p] = "redeemMark"
    /\ codes' = MarkUsed(codes, checkCode[p].code, userId[p])
    /\ Goto(p, "redeemCredit")
    /\ UNCHANGED <<notRedeem, checkCode, balance, userId, pre>>

\* await User.findByIdAndUpdate(...), then the response
RedeemCredit(p) ==
    /\ pc[p] = "redeemCredit"
    /\ balance' = CreditBalance(balance, userId[p], checkCode[p].value)
    /\ Respond(p, 200, "has been added to your account")
    /\ UNCHANGED <<notRedeem, checkCode, codes, userId, pre>>

\* the store call redeemCode is about to make rejects; asyncHandler hands the
\* error to the error middleware
RedeemFault(p) ==
    /\ pc[p] \in {"redeemMark", "redeemCredit"}
    /\ Rethrow(p)
    /\ UNCHANGED <<notRedeem, checkCode, codes, balance, userId, pre>>

\* no balance, an empty cart and no order for every user
InitRedeem ==
    /\ stock = [b \in Books |-> MaxQty]
    /\ price = [b \in Books |-> InitialPrice(b)]
    /\ balance = [u \in Users |-> 0]
    /\ cart = [u \in Users |-> <<>>]
    /\ orders = <<>>
    /\ InitLocals

\* concurrent redeem requests of any users for any codes, as time passes
NextRedeem ==
    \/ \E p \in Procs :
        \/ \E u \in Users, c \in CodeInputs : RedeemFindOne(p, u, c)
        \/ RedeemMark(p)
        \/ RedeemCredit(p)
        \/ RedeemFault(p)
    \/ Elapse

SpecRedeem == InitRedeem /\ [][NextRedeem]_vars

\* ------------------------------------------------------------------ rateLimiter
\* routeLimits, let window = 60 and let max = req.user ? 100 : 10
LoginMax == 5
LoginWindow == 60
RedeemMax == 3
RedeemWindow == 3600
DefaultWindow == 60
UserMax == 100
AnonymousMax == 10

\* window and max as rateLimiter sets them for a path and req.user
LimitsOf(route, user) ==
    IF route = "/api/auth/login" THEN [window |-> LoginWindow, max |-> LoginMax]
    ELSE IF route = "/api/code/redeem" THEN [window |-> RedeemWindow, max |-> RedeemMax]
    ELSE [window |-> DefaultWindow,
          max |-> IF user # Anonymous THEN UserMax ELSE AnonymousMax]

\* INCR key: a key that does not exist is created with the value 1 and no expiry
Incr(ks, k) ==
    [ks EXCEPT ![k] = IF @ = NoKey THEN [count |-> 1, ttl |-> TtlNone]
                                   ELSE [@ EXCEPT !.count = @ + 1]]

\* EXPIRE key seconds: no effect on a key that does not exist
Expire(ks, k, seconds) ==
    [ks EXCEPT ![k] = IF @ = NoKey THEN @ ELSE [@ EXCEPT !.ttl = seconds]]

\* TTL key
Ttl(ks, k) == ks[k].ttl

\* a limiter that also turns away the request that reaches max
OverLimitOrAt(count, max) == count >= max

\* count > max
OverLimit(count, max) == count > max

\* everything but the state of rateLimiter and the response
notLimiter == <<stock, price, edits, live, answer, adding, codes, checkCode, balance, cart,
                orders, userId, cartItems, userBalance, stockErrors, calculatedTotalPrice,
                idx, processedItems, newOrder, pre>>

\* next(): the request goes on to its handler
Forward(p) ==
    /\ pc' = [pc EXCEPT ![p] = "done"]
    /\ message' = [message EXCEPT ![p] = "next"]
    /\ UNCHANGED status

\* the check of count against max, and the response or next() that follows
Decide(p, l) ==
    IF OverLimit(l.count, l.max)
       THEN Respond(p, 429, "Too many requests")
       ELSE Forward(p)

\* const count = await client.incr(key), for a request of a path by a user (or
\* by none) from an address. The bounds: MaxKeys keys at a time, MaxOver counted
\* requests beyond max, MaxStale requests counted in a window while a request
\* counted in a window that has ended is still running, and MaxLag requests
\* counted after one that is still running
LimIncr(p, route, user, address) ==
    /\ pc[p] = "idle"
    /\ LET key == <<route, Identifier(user, address)>> IN
       /\ Cardinality({k \in Keys : limiter[k] # NoKey} \cup {key}) <= MaxKeys
       /\ limiter[key].count < LimitsOf(route, user).max + MaxOver
       /\ (\E q \in Procs : lim[q].stale) => limiter[key].count < MaxStale
       /\ \A q \in Procs :
             (lim[q].key = key /\ ~lim[q].stale) => limiter[key].count - lim[q].count < MaxLag
       /\ limiter' = Incr(limiter, key)
       /\ lim' = [lim EXCEPT ![p] =
                     [key |-> key, max |-> LimitsOf(route, user).max,
                      window |-> LimitsOf(route, user).window,
                      count |-> limiter'[key].count, ttl |-> 0, stale |-> FALSE]]
       /\ IF limiter'[key].count = 1 THEN Goto(p, "limExpire") ELSE Goto(p, "limTtl")
    /\ UNCHANGED <<notLimiter, error>>

\* if (count === 1) await client.expire(key, window)
LimExpire(p) ==
    /\ pc[p] = "limExpire"
    /\ limiter' = Expire(limiter, lim[p].key, lim[p].window)
    /\ Goto(p, "limTtl")
    /\ UNCHANGED <<notLimiter, error, lim>>

\* const ttl = await client.ttl(key); with an expiry on the key the check of the
\* count follows
LimTtl(p) ==
    /\ pc[p] = "limTtl"
    /\ LET l == [lim[p] EXCEPT !.ttl = Ttl(limiter, lim[p].key)] IN
       /\ lim' = [lim EXCEPT ![p] = l]
       /\ IF l.ttl = TtlNone
             THEN Goto(p, "limExpireAgain")
             ELSE Decide(p, l)
    /\ UNCHANGED <<notLimiter, error, limiter>>

\* if (ttl === -1) await client.expire(key, window), then the check of the count
LimExpireAgain(p) ==
    /\ pc[p] = "limExpireAgain"
    /\ limiter' = Expire(limiter, lim[p].key, lim[p].window)
    /\ Decide(p, lim[p])
    /\ UNCHANGED <<notLimiter, error, lim>>

\* client.incr rejects: the catch block calls next()
LimIncrFault(p, route, user, address) ==
    /\ pc[p] = "idle"
    /\ route \in Routes /\ user \in Users \cup {Anonymous} /\ address \in Addresses
    /\ error' = [error EXCEPT ![p] = "store error"]
    /\ Forward(p)
    /\ UNCHANGED <<notLimiter, limiter, lim>>

\* a later call of the counter store rejects: the catch block calls next()
LimFault(p) ==
    /\ pc[p] \in {"limExpire", "limTtl", "limExpireAgain"}
    /\ error' = [error EXCEPT ![p] = "store error"]
    /\ Forward(p)
    /\ UNCHANGED <<notLimiter, limiter, lim>>

\* the request has left rateLimiter; the slot is free for the next request
LimReturn(p) ==
    /\ pc[p] = "done"
    /\ pc' = [pc EXCEPT ![p] = "idle"]
    /\ status' = [status EXCEPT ![p] = 0]
    /\ message' = [message EXCEPT ![p] = ""]
    /\ error' = [error EXCEPT ![p] = ""]
    /\ lim' = [lim EXCEPT ![p] = NoLim]
    /\ UNCHANGED <<notLimiter, limiter>>

\* the users whose requests rateLimiter sees with req.user set
Members == {1}

\* requests of any path by a member or an anonymous client, as time passes and
\* with calls of the counter store that may fail
NextLimiter ==
    \/ \E p \in Procs :
        \/ \E route \in Routes, user \in Members \cup {Anonymous}, address \in Addresses :
              \/ LimIncr(p, route, user, address)
              \/ LimIncrFault(p, route, user, address)
        \/ LimExpire(p)
        \/ LimTtl(p)
        \/ LimExpireAgain(p)
        \/ LimFault(p)
        \/ LimReturn(p)
    \/ Elapse

SpecLimiter == InitRedeem /\ [][NextLimiter]_vars

\* ------------------------------------------------------------------ properties
RECURSIVE QuantityOf(_, _)
\* the quantity the lines of a cart ask of book b
QuantityOf(lines, b) ==
    IF lines = <<>> THEN 0
    ELSE (IF Head(lines).book = b THEN Head(lines).quantity ELSE 0)
         + QuantityOf(Tail(lines), b)

RECURSIVE Shortages(_, _)
\* the lines of a cart that stock st cannot serve, in cart order
Shortages(lines, st) ==
    IF lines = <<>> THEN <<>>
    ELSE (IF st[Head(lines).book] < Head(lines).quantity
             THEN <<[bookId |-> Head(lines).book,
                     available |-> st[Head(lines).book],
                     requested |-> Head(lines).quantity]>>
             ELSE <<>>)
         \o Shortages(Tail(lines), st)

RECURSIVE LinesAsItems(_, _)
\* the order items a cart gives at unit prices pr
LinesAsItems(lines, pr) ==
    IF lines = <<>> THEN <<>>
    ELSE <<[book |-> Head(lines).book,
            quantity |-> Head(lines).quantity,
            price |-> pr[Head(lines).book]]>> \o LinesAsItems(Tail(lines), pr)

\* request p has returned
Done(p) == pc[p] = "done"

\* the cart request p found when it started
PreCart(p) == pre[p].cart[userId[p]]

\* every line of that cart was in stock when request p started
PreInStock(p) == Shortages(PreCart(p), pre[p].stock) = <<>>

\* the total of that cart at the prices of the catalogue
PreTotal(p) == SumLines(PreCart(p), price)

\* request p has changed no store
NoMutation(p) ==
    /\ stock = pre[p].stock
    /\ balance = pre[p].balance
    /\ orders = pre[p].orders
    /\ cart = pre[p].cart

\* C1: a checkout of a non-empty cart whose lines are all in stock and whose
\* total is within the balance, none of whose store calls fails, answers 201,
\* appends exactly one order (of the user, pending, with the cart's lines at the
\* catalogue prices and totalPrice their sum), takes each line's quantity from
\* the stock of its book, takes totalPrice from the user's balance, empties the
\* user's cart and leaves the other users' balances and carts alone.
C1_AtomicSuccess ==
    \A p \in Procs :
        (/\ Done(p)
         /\ error[p] = ""
         /\ PreCart(p) # <<>>
         /\ PreInStock(p)
         /\ PreTotal(p) <= pre[p].balance[userId[p]])
        => /\ status[p] = 201
           /\ orders = Append(pre[p].orders,
                              [user |-> userId[p],
                               items |-> LinesAsItems(PreCart(p), price),
                               totalPrice |-> PreTotal(p),
                               status |-> "pending"])
           /\ \A b \in Books : stock[b] = pre[p].stock[b] - QuantityOf(PreCart(p), b)
           /\ balance = [pre[p].balance EXCEPT ![userId[p]] = @ - PreTotal(p)]
           /\ cart = [pre[p].cart EXCEPT ![userId[p]] = <<>>]

\* a checkout of a two-line cart has succeeded
C1_Witness ==
    \E p \in Procs :
        /\ Done(p)
        /\ status[p] = 201
        /\ Len(cartItems[p]) = 2
        /\ newOrder[p] = Len(orders)

\* C2: no book's stock is ever negative, however concurrent checkouts interleave.
C2_StockNonNegative == \A b \in Books : stock[b] >= 0

\* a checkout that passed validation lost the race for a book to another one:
\* its conditional decrement found too little stock
C2_Witness ==
    \E p \in Procs :
        /\ error[p] = "Insufficient stock for book"
        /\ \E q \in Procs \ {p} : processedItems[q] # <<>>
        /\ \E b \in Books : stock[b] = 0

\* C3: no account's balance is ever negative, also when two checkouts of one
\* user both pass the balance check before either debits.
C3_BalanceNonNegative == \A u \in Users : balance[u] >= 0

\* C4: a checkout that ends in an error leaves every book's stock and every
\* balance as they were when it started.
C4_FailureLeavesStockAndBalance ==
    \A p \in Procs :
        (Done(p) /\ status[p] # 201)
        => (stock = pre[p].stock /\ balance = pre[p].balance)

\* C5: when a checkout has returned, it has persisted an order if and only if it
\* has deleted the user's cart lines.
C5_CartClearedIffOrder ==
    \A p \in Procs :
        Done(p) => ((orders # pre[p].orders) <=> (cart # pre[p].cart))

\* C6: when the decrement of line k > 1 fails after lines 1..k-1 were
\* decremented, the checkout answers 500 and every book's stock, every balance,
\* the orders and the carts are as they were when it started.
C6_Compensation ==
    \A p \in Procs :
        (/\ Done(p)
         /\ error[p] # ""
         /\ Len(processedItems[p]) >= 1
         /\ Len(processedItems[p]) < Len(cartItems[p]))
        => (status[p] = 500 /\ NoMutation(p))

\* the decrement of the second line failed after the first line was decremented
C6_Witness ==
    \E p \in Procs :
        /\ Done(p)
        /\ error[p] # ""
        /\ Len(processedItems[p]) = 1
        /\ Len(cartItems[p]) = 2

\* C7: every order's totalPrice is the sum of its items' price x quantity (both
\* are the prices read by the validation pass).
C7_PriceSnapshot ==
    \A i \in DOMAIN orders : orders[i].totalPrice = SumItems(orders[i].items)

\* C8: a checkout whose validation pass finds lines short of stock answers 400
\* "Insufficient stock for some items" with exactly those lines, in cart order,
\* each with its book, the stock available and the quantity requested, and
\* changes no store.
C8_AggregatedShortages ==
    \A p \in Procs :
        (/\ Done(p)
         /\ error[p] = ""
         /\ PreCart(p) # <<>>
         /\ ~PreInStock(p))
        => /\ status[p] = 400
           /\ message[p] = "Insufficient stock for some items"
           /\ stockErrors[p] = Shortages(PreCart(p), pre[p].stock)
           /\ NoMutation(p)

\* the second of two lines is short of stock, the first is not
C8_Witness ==
    \E p \in Procs :
        /\ Done(p)
        /\ status[p] = 400
        /\ Len(cartItems[p]) = 2
        /\ Len(stockErrors[p]) = 1
        /\ stockErrors[p][1].bookId = cartItems[p][2].book

\* C9: a checkout of a cart that is in stock and whose total exceeds the balance
\* answers 400 "Insufficient balance in your account" with required the total
\* and available the balance, and changes no store.
C9_BalanceGate ==
    \A p \in Procs :
        (/\ Done(p)
         /\ error[p] = ""
         /\ PreCart(p) # <<>>
         /\ PreInStock(p)
         /\ PreTotal(p) > pre[p].balance[userId[p]])
        => /\ status[p] = 400
           /\ message[p] = "Insufficient balance in your account"
           /\ calculatedTotalPrice[p] = PreTotal(p)
           /\ userBalance[p] = pre[p].balance[userId[p]]
           /\ NoMutation(p)

\* a two-line cart in stock was refused for its total
C9_Witness ==
    \E p \in Procs :
        /\ Done(p)
        /\ message[p] = "Insufficient balance in your account"
        /\ Len(cartItems[p]) = 2
        /\ userBalance[p] > 0

\* C10: a checkout of an empty cart answers 400 "Cart is empty" and changes no
\* store, every time it is made.
C10_EmptyCart ==
    \A p \in Procs :
        (Done(p) /\ error[p] = "" /\ PreCart(p) = <<>>)
        => /\ status[p] = 400
           /\ message[p] = "Cart is empty"
           /\ NoMutation(p)

\* the checkout that follows a successful checkout finds the cart empty
C10_Witness ==
    \E p \in Procs :
        /\ Done(p)
        /\ message[p] = "Cart is empty"
        /\ \E i \in DOMAIN orders : orders[i].user = userId[p]

\* some line of the cart read by request p has no book behind it
HasNullBook(p) == \E i \in DOMAIN cartItems[p] : cartItems[p][i].book = NullBook

\* the validation pass of request p looked up a book that does not exist: the
\* populated book of a line was null, or Book.findById returned nothing
BookMissingAtValidation(p) == HasNullBook(p) \/ error[p] = NullPriceError

\* C11: a checkout whose validation pass looks up a book that does not exist
\* (the populated book of a line is null, or the fresh read returns nothing) ends
\* with the book-not-found response (404 "One or more books not found") and has
\* changed no stock, balance, order or cart.
C11_BookNotFound ==
    \A p \in Procs :
        (Done(p) /\ BookMissingAtValidation(p)) =>
            /\ status[p] = 404
            /\ message[p] = "One or more books not found"
            /\ NoMutation(p)

\* C12: while the catch block compensates, a failing increment does not end the
\* compensation: as long as processed items remain the request goes on to the next
\* one, and the error with which the request ends is the error the catch block
\* caught.
C12_RollbackSurvivesFault ==
    [][\A p \in Procs :
          (pc[p] = "rollback" /\ <<pc[p], idx[p]>>' # <<pc[p], idx[p]>>) =>
              /\ idx[p] < Len(processedItems[p]) =>
                    (pc'[p] = "rollback" /\ idx'[p] = idx[p] + 1)
              /\ pc'[p] = "done" => error'[p] = error[p]]_vars

\* a request of handler name is answered in this step
Answers(name) == answer = NoAnswer /\ answer' # NoAnswer /\ answer'.op = name

C14_StatusUpdate ==
    [][Answers("updateOrderStatus") =>
          LET id == answer'.orderId
              st == answer'.input
              valid == st \in {"pending", "processing", "shipped", "delivered", "cancelled"}
          IN
          /\ (valid /\ id \in DOMAIN orders) =>
                /\ answer'.status = 200
                /\ orders' = [orders EXCEPT ![id].status = st]
          /\ ~valid =>
                /\ answer'.status = 400
                /\ answer'.message = "Invalid status"
                /\ orders' = orders
          /\ (valid /\ id \notin DOMAIN orders) =>
                /\ answer'.status = 404
                /\ orders' = orders]_vars

\* an order that was delivered when a checkout started has been set back to
\* pending by a status update
C14_Witness ==
    /\ answer.op = "updateOrderStatus"
    /\ answer.status = 200
    /\ \E p \in Procs :
          /\ answer.orderId \in DOMAIN pre[p].orders
          /\ pre[p].orders[answer.orderId].status = "delivered"
          /\ orders[answer.orderId].status = "pending"

\* C15: no step removes an order or changes the user, items or totalPrice of an
\* existing order; the status of an existing order changes only in a step of
\* updateOrderStatus for that order; every order that appears is pending.
C15_AppendOnly ==
    [][/\ Len(orders') >= Len(orders)
       /\ \A i \in DOMAIN orders :
             /\ orders'[i].user = orders[i].user
             /\ orders'[i].items = orders[i].items
             /\ orders'[i].totalPrice = orders[i].totalPrice
             /\ orders'[i].status # orders[i].status =>
                   (Answers("updateOrderStatus") /\ answer'.orderId = i)
       /\ \A i \in DOMAIN orders' \ DOMAIN orders :
             orders'[i].status = "pending"]_vars

\* a checkout has created an order, which is pending, and the status of an older
\* order has been updated
C15_Witness ==
    /\ answer.op = "updateOrderStatus"
    /\ answer.status = 200
    /\ \E p \in Procs :
          /\ newOrder[p] # 0
          /\ orders[newOrder[p]].status = "pending"
          /\ answer.orderId < newOrder[p]
          /\ orders[answer.orderId].status # pre[p].orders[answer.orderId].status

\* C17: getUserOrders answers with the orders of the requester, all of them and
\* no other, each once, ordered by creation time with the newest first.
C17_OwnOrdersNewestFirst ==
    [][Answers("getUserOrders") =>
          LET u == answer'.requester
              body == answer'.body
              own == {i \in DOMAIN orders : orders[i].user = u}
          IN
          /\ answer'.status = 200
          /\ Len(body) = Cardinality(own)
          /\ \A k \in DOMAIN body :
                body[k].id \in own /\ body[k] = Doc(orders, body[k].id)
          /\ \A j, k \in DOMAIN body :
                j < k => body[j].createdAt > body[k].createdAt]_vars

\* a user with two orders has asked for them while another user has an order too
C17_Witness ==
    /\ answer.op = "getUserOrders"
    /\ Len(answer.body) >= 2
    /\ \E i \in DOMAIN orders : orders[i].user # answer.requester

\* C16: for a request of page page with page size size (1 and 10 when the
\* request leaves them out) over totalOrders matching orders, getAllOrders skips
\* (page - 1) x size orders and limits the page to size, and reports
\* totalPages = ceil(totalOrders / size), hasPrev = (page > 1),
\* hasNext = (page x size < totalOrders); hasNext holds exactly when
\* page < totalPages.
C16_Pagination ==
    [][Answers("getAllOrders") =>
          LET inp == answer'.input
              page == IF inp.page.given THEN inp.page.value ELSE 1
              size == IF inp.limit.given THEN inp.limit.value ELSE 10
              total == Cardinality({i \in DOMAIN orders :
                                      inp.status = "" \/ orders[i].status = inp.status})
              find == answer'.body.find
              pg == answer'.body.pagination
          IN
          /\ find.skip = (page - 1) * size
          /\ find.limit = size
          /\ pg.currentPage = page
          /\ pg.totalOrders = total
          /\ pg.totalPages * size >= total
          /\ (pg.totalPages - 1) * size < total
          /\ pg.hasPrev = (page > 1)
          /\ pg.hasNext = (page * size < total)
          /\ pg.hasNext <=> (page < pg.totalPages)]_vars

\* page 2 of 25 orders, 5 a page: 5 pages, one before and one after; 5 skipped
C16_Witness ==
    /\ answer.op = "getAllOrders"
    /\ answer.body.pagination =
          [currentPage |-> 2, totalPages |-> 5, totalOrders |-> 25,
           hasNext |-> TRUE, hasPrev |-> TRUE]
    /\ answer.body.find = [skip |-> 5, limit |-> 5]

\* the number of lines of a cart for book b
LinesOf(lines, b) == Cardinality({i \in DOMAIN lines : lines[i].book = b})

\* C18: every accepted add-to-cart request of a user for a book leaves the user's
\* cart with one line for the book, and raises the quantity the cart holds of the
\* book by the quantity added, however the requests interleave (so that there is
\* at most one line per user and book, its quantity the sum of the accepted adds).
C18_OneLinePerBook ==
    [][\A p \in Procs :
          (pc[p] = "addWrite" /\ pc'[p] = "done") =>
              LET u == userId[p]
                  b == adding[p].bookId
              IN
              /\ LinesOf(cart'[u], b) = 1
              /\ QuantityOf(cart'[u], b) = QuantityOf(cart[u], b) + adding[p].quantity]_vars

\* every cart line read by request p has been decremented, in cart order
AllDecremented(p) ==
    /\ Len(processedItems[p]) = Len(cartItems[p])
    /\ \A k \in DOMAIN cartItems[p] :
          /\ processedItems[p][k].bookId = cartItems[p][k].book
          /\ processedItems[p][k].quantity = cartItems[p][k].quantity

\* C19: a checkout decrements the stock of its cart lines in the order it read
\* them, one line a step; it debits the balance only in the step after the last
\* decrement, when the conditional decrement of every line has succeeded; it
\* creates the order only in the step after the debit, and clears the cart only
\* in the step after the order creation. No balance is debited and no order is
\* created by a request whose decrements have not all succeeded.
C19_MutationOrder ==
    [][/\ \A p \in Procs :
             LET u == userId[p] IN
             /\ processedItems'[p] # processedItems[p] /\ pc[p] # "done" =>
                   LET k == Len(processedItems[p]) + 1
                       line == cartItems[p][k]
                   IN
                   /\ pc[p] = "decrement"
                   /\ Len(processedItems'[p]) = k
                   /\ processedItems'[p][k].bookId = line.book
                   /\ stock' = [stock EXCEPT ![line.book] = @ - line.quantity]
                   /\ UNCHANGED <<balance, orders, cart>>
             /\ (pc'[p] = "debit" /\ pc[p] # "debit") =>
                   (pc[p] = "decrement" /\ AllDecremented(p)')
             /\ (pc'[p] = "create" /\ pc[p] # "create") =>
                   /\ pc[p] = "debit"
                   /\ AllDecremented(p)
                   /\ balance' = [balance EXCEPT ![u] = @ - calculatedTotalPrice[p]]
                   /\ UNCHANGED <<stock, orders, cart>>
             /\ (pc'[p] = "clear" /\ pc[p] # "clear") =>
                   /\ pc[p] = "create"
                   /\ Len(orders') = Len(orders) + 1
                   /\ orders'[Len(orders')].user = u
                   /\ UNCHANGED <<stock, balance, cart>>
             /\ (pc'[p] = "read" /\ pc[p] # "read") =>
                   /\ pc[p] = "clear"
                   /\ cart' = [cart EXCEPT ![u] = <<>>]
                   /\ UNCHANGED <<stock, balance, orders>>
       /\ balance' # balance => \E p \in Procs : pc[p] = "debit" /\ AllDecremented(p)
       /\ orders' # orders => \E p \in Procs : pc[p] = "create" /\ AllDecremented(p)]_vars

\* one checkout has gone through its four phases and answered 201; another has
\* lost a conditional decrement and answered 500, and there is one order
C19_Witness ==
    \E p, q \in Procs :
        /\ Done(p) /\ status[p] = 201 /\ AllDecremented(p)
        /\ Done(q) /\ status[q] = 500 /\ ~AllDecremented(q)
        /\ Len(orders) = 1

RECURSIVE ProcessedQuantity(_, _)
\* the quantity the processed items took of book b
ProcessedQuantity(items, b) ==
    IF items = <<>> THEN 0
    ELSE (IF Head(items).bookId = b THEN Head(items).quantity ELSE 0)
         + ProcessedQuantity(Tail(items), b)

\* the stock is what it was when request p started, less the processed items
\* from position first to position last
StillDecremented(p, first, last) ==
    \A b \in Books :
        stock[b] = pre[p].stock[b]
                     - ProcessedQuantity(SubSeq(processedItems[p], first, last), b)

\* C20 as stated: while a checkout compensates, the items it has restored are the
\* last ones it decremented (the items still decremented are the first n
\* processed items, for some n): the last decremented book is restored first.
C20_ReverseOrder ==
    \A p \in Procs :
        pc[p] = "rollback" =>
            \E n \in 0..Len(processedItems[p]) : StillDecremented(p, 1, n)

\* C20: while a checkout compensates, the items it has restored are the
\* first ones it decremented (the items still decremented are the last n processed
\* items, for some n): the compensating increments are applied in the order in
\* which the decrements were applied, the first decremented book first.
C20_DecrementOrder ==
    \A p \in Procs :
        pc[p] = "rollback" =>
            \E n \in 0..Len(processedItems[p]) :
                StillDecremented(p, Len(processedItems[p]) - n + 1, Len(processedItems[p]))

\* a checkout that decremented two books has restored the first and not yet the
\* second
C20_Witness ==
    \E p \in Procs :
        /\ pc[p] = "rollback"
        /\ Len(processedItems[p]) = 2
        /\ stock[processedItems[p][1].bookId] = pre[p].stock[processedItems[p][1].bookId]
        /\ stock[processedItems[p][2].bookId] < pre[p].stock[processedItems[p][2].bookId]

\* C21: of two concurrent checkouts, when one has lost the race at a conditional
\* decrement (it passed validation and answers 500 after compensating), the
\* other has created its order and answers 201: the two never both fail.
C21_ExactlyOneLoser ==
    \A p, q \in Procs :
        (p # q /\ Done(p) /\ Done(q) /\ status[p] = 500) => status[q] = 201

\* C22: a checkout that answers with a failure after it decremented stock has
\* applied a compensating increment for every processed item (the stock is what
\* it was when the checkout started), and every checkout that has started ends
\* with a response.
C22_CompensationCompletes ==
    /\ [](\A p \in Procs :
             (Done(p) /\ status[p] = 500 /\ processedItems[p] # <<>>) =>
                 stock = pre[p].stock)
    /\ \A p \in Procs : (pc[p] # "idle") ~> Done(p)

RECURSIVE ItemsQuantity(_, _)
\* the quantity the items of an order hold of book b
ItemsQuantity(items, b) ==
    IF items = <<>> THEN 0
    ELSE (IF Head(items).book = b THEN Head(items).quantity ELSE 0)
         + ItemsQuantity(Tail(items), b)

RECURSIVE OrderedQuantity(_, _)
\* the quantity the orders hold of book b
OrderedQuantity(ords, b) ==
    IF ords = <<>> THEN 0
    ELSE ItemsQuantity(Head(ords).items, b) + OrderedQuantity(Tail(ords), b)

\* the requests that have started
Started == {p \in Procs : pc[p] # "idle"}

\* the stock of book b before the first checkout: the first request to start saw
\* it, and no later request saw more
InitialStock(b) ==
    CHOOSE s \in {pre[p].stock[b] : p \in Started} :
        \A p \in Started : pre[p].stock[b] <= s

\* C23: when every checkout that started has returned (no store call failed, no
\* administrator changed the stock), every book's initial stock equals its
\* stock plus the quantity the created orders hold of it.
C23_NoOverselling ==
    (Started # {} /\ \A p \in Started : Done(p)) =>
        \A b \in Books : InitialStock(b) = stock[b] + OrderedQuantity(orders, b)

\* two checkouts have returned: one created its order, the other lost the race
\* after it had decremented a book, and was compensated
C23_Witness ==
    \E p, q \in Procs :
        /\ Done(p) /\ status[p] = 201
        /\ Done(q) /\ status[q] = 500 /\ processedItems[q] # <<>>
        /\ \A r \in Procs : Done(r)

\* C24: a checkout that has persisted an order answers 201 and keeps its stock
\* decrements; a checkout that answers with an error has left no order behind.
C24_OrderOnlyOnSuccess ==
    \A p \in Procs :
        Done(p) =>
            /\ newOrder[p] # 0 =>
                  (status[p] = 201 /\ StillDecremented(p, 1, Len(processedItems[p])))
            /\ status[p] # 201 => orders = pre[p].orders

\* C25: two checkouts of one user that read the same cart lines do not both
\* create an order for them.
C25_CartOrderedOnce ==
    \A p, q \in Procs :
        (/\ p # q
         /\ userId[p] # 0
         /\ userId[p] = userId[q]
         /\ cartItems[p] # <<>>
         /\ cartItems[p] = cartItems[q])
        => ~(newOrder[p] # 0 /\ newOrder[q] # 0)

\* C26: every cart line that the cart clear of a checkout removes is in the order
\* the checkout created, with its quantity, also when the user added or updated a
\* line after the checkout read the cart.
C26_ClearsOnlyOrdered ==
    [][\A p \in Procs :
          (pc[p] = "clear" /\ pc'[p] = "read") =>
              LET removed == cart[userId[p]]
                  items == orders[newOrder[p]].items
              IN
              \A i \in DOMAIN removed :
                  \E k \in DOMAIN items :
                      /\ items[k].book = removed[i].book
                      /\ items[k].quantity = removed[i].quantity]_vars

\* request p answers in this step
Responds(p) == pc[p] # "done" /\ pc'[p] = "done"

\* C29: a cart line written by an add or an update holds at most the stock of
\* its book that the request read; an add is rejected (400) exactly when the
\* quantity of the line found plus the quantity added exceeds that stock, an
\* update exactly when the new quantity exceeds it; a rejected request leaves
\* the carts as they are; an update to quantity 0 removes the line.
C29_QuantityWithinStock ==
    [][\A p \in Procs :
          LET u == userId[p]
              a == adding[p]
          IN
          /\ (pc[p] = "addFindOne" /\ Responds(p)) =>
                /\ adding'[p].lineQuantity + a.quantity > a.stock
                /\ status'[p] = 400
                /\ cart' = cart
          /\ (pc[p] = "addFindOne" /\ pc'[p] = "addWrite") =>
                adding'[p].lineQuantity + a.quantity <= a.stock
          /\ (pc[p] = "updFindBook" /\ Responds(p)) =>
                /\ a.bookId \in live => a.quantity > adding'[p].stock
                /\ status'[p] = IF a.bookId \in live THEN 400 ELSE 404
                /\ cart' = cart
          /\ (pc[p] = "updFindBook" /\ pc'[p] = "updSave") =>
                a.quantity <= adding'[p].stock
          /\ (pc[p] \in {"addWrite", "updSave"} /\ Responds(p) /\ cart' # cart) =>
                \E l \in [book : {a.bookId}, quantity : 1..a.stock] :
                    \/ cart' = [cart EXCEPT ![u] = Append(@, l)]
                    \/ \E i \in DOMAIN cart[u] :
                          cart[u][i].book = l.book /\ cart' = [cart EXCEPT ![u][i] = l]
          /\ (pc[p] = "updDelete" /\ Responds(p) /\ Held(p)) =>
                cart' = [cart EXCEPT ![u] = RemoveAt(@, a.line)]
          /\ (Responds(p) /\ status'[p] \in {400, 403, 404}) => cart' = cart]_vars

\* an add to a line that holds the whole stock was rejected, and an update has
\* removed a line
C29_Witness ==
    \E p, q \in Procs :
        /\ Done(p) /\ status[p] = 400 /\ adding[p].lineQuantity = adding[p].stock
        /\ adding[p].lineQuantity > 0
        /\ Done(q) /\ message[q] = "Cart item removed successfully"
        /\ Len(cart[userId[q]]) < Len(pre[q].cart[userId[q]])
\* C28: the value of a code is added to a balance at most once, whatever users
\* redeem it and however their requests interleave; a redeem of a code that is
\* unknown, used, inactive or expired answers 404 and changes no balance and no
\* code.
C28_CreditedOnce ==
    [][\A p \in Procs :
          /\ (pc[p] = "redeemCredit" /\ Responds(p) /\ status'[p] = 200) =>
                \A q \in Procs \ {p} :
                    ~ /\ Done(q) /\ status[q] = 200
                      /\ checkCode[q].code = checkCode[p].code
          /\ (pc[p] = "idle" /\ pc'[p] # "idle" /\ checkCode'[p].code # MalformedCode) =>
                LET c == checkCode'[p].code IN
                IF c \in Codes /\ Redeemable(codes[c])
                   THEN pc'[p] = "redeemMark"
                   ELSE /\ Responds(p) /\ status'[p] = 404
                        /\ balance' = balance /\ codes' = codes]_vars
\* C27: after a checkout of the variant that re-credits the balance has failed,
\* no book has more stock and the user has no more balance than before the
\* checkout, also when its first conditional decrement was the call that failed.
C27_RollbackReversesApplied ==
    \A p \in Procs :
        (Done(p) /\ status[p] = 500) =>
            /\ \A b \in Books : stock[b] <= pre[p].stock[b]
            /\ balance[userId[p]] <= pre[p].balance[userId[p]]
\* max and window of a key as the claim gives them
LimitTable(k) ==
    IF k[1] = "/api/auth/login" THEN [max |-> 5, window |-> 60]
    ELSE IF k[1] = "/api/code/redeem" THEN [max |-> 3, window |-> 3600]
    ELSE IF k[2].kind = "user" THEN [max |-> 100, window |-> 60]
    ELSE [max |-> 10, window |-> 60]

====
